---- MODULE Spec2Model ----
(***************************************************************************)
(* A model of the Google Maps Distance Matrix collector                    *)
(* (src/src/collectors/maps_api.py, src/src/collectors/config_loader.py).  *)
(*                                                                         *)
(* Text is a sequence of one-character strings.  A JSON value is a tagged  *)
(* record:  [t |-> "null"], [t |-> "num", n |-> 7], [t |-> "str", s |->    *)
(* chars], [t |-> "list", items |-> <<values>>] and [t |-> "dict",         *)
(* items |-> << <<key chars, value>>, ... >>] (insertion ordered, as a     *)
(* Python dict is).  Python's None is the JSON null.                       *)
(***************************************************************************)
EXTENDS Integers, Sequences, FiniteSets, TLC

VARIABLES
    environ,        \* os.environ[api_key_env]: Unset, "" or a key
    dotenv,         \* the entry for api_key_env in the .env file: NoFile, "" or a key
    collector,      \* the MapsAPICollector object, or NoCollector
    construction,   \* the constructor call made: environment at entry, configuration, error raised
    raw_dir_exists, \* whether project_root/raw_data_dir exists on disk
    file_exists,    \* whether the output .jsonl file exists
    file_content,   \* the characters of the output file
    pc,             \* position of the running call: "idle", "fetch", "parse", "save", "collect"
    call,           \* the running (or last) call: kind, pairs, save_raw, content of the file at entry
    idx,            \* run_batch's loop position (1-based) / 1 for run_for_one_pair
    api_response,   \* the local api_response of run_for_one_pair
    parsed,         \* the local (distance_text, duration_text) of run_for_one_pair
    results,        \* run_batch's local results list
    outcome,        \* what the last call gave its caller: returned value or raised error
    net_log,        \* history: every requests.get issued, with its parameters and its result
    events          \* history: the steps taken, in order

vars == << environ, dotenv, collector, construction, raw_dir_exists, file_exists,
           file_content, pc, call, idx, api_response, parsed, results, outcome,
           net_log, events >>

(***************************************************************************)
(* Bounds of the model.                                                    *)
(***************************************************************************)
MaxPairs == 2       \* longest batch handed to run_batch
MaxFetches == 2     \* network calls issued over the whole run
MaxCalls == 2       \* calls of run_for_one_pair and run_batch over the whole run
MaxSaves == 2       \* direct save_raw_response calls in the sink specification

(***************************************************************************)
(* Characters and text.                                                    *)
(***************************************************************************)
NL == "\n"
QUOTE == "\""
BSL == "\\"
SPACE == " "
Digits == <<"0", "1", "2", "3", "4", "5", "6", "7", "8", "9">>

DropPrefix(s, n) == SubSeq(s, n + 1, Len(s))

StartsWith(s, p) == Len(s) >= Len(p) /\ SubSeq(s, 1, Len(p)) = p

\* the first position of c in s at or after i, 0 when there is none
IndexOf(s, c, i) ==
    LET hits == {j \in i..Len(s) : s[j] = c}
    IN  IF hits = {} THEN 0 ELSE CHOOSE j \in hits : \A h \in hits : j <= h

(***************************************************************************)
(* JSON values.                                                            *)
(***************************************************************************)
None == [t |-> "null"]
JNum(n) == [t |-> "num", n |-> n]
JStr(s) == [t |-> "str", s |-> s]
JList(items) == [t |-> "list", items |-> items]
JDict(items) == [t |-> "dict", items |-> items]

K_rows == <<"r", "o", "w", "s">>
K_elements == <<"e", "l", "e", "m", "e", "n", "t", "s">>
K_distance == <<"d", "i", "s", "t", "a", "n", "c", "e">>
K_duration == <<"d", "u", "r", "a", "t", "i", "o", "n">>
K_text == <<"t", "e", "x", "t">>
K_status == <<"s", "t", "a", "t", "u", "s">>

(***************************************************************************)
(* json.dumps with its defaults: separators ", " and ": ", control         *)
(* characters, quotes and backslashes escaped inside strings.              *)
(***************************************************************************)
\* EscapeChar, were line terminators written as they are
EscapeCharRawNewline(c) ==
    IF c = QUOTE THEN <<BSL, QUOTE>>
    ELSE IF c = BSL THEN <<BSL, BSL>>
    ELSE <<c>>

EscapeChar(c) ==
    IF c = QUOTE THEN <<BSL, QUOTE>>
    ELSE IF c = BSL THEN <<BSL, BSL>>
    ELSE IF c = NL THEN <<BSL, "n">>
    ELSE <<c>>

RECURSIVE EscapeString(_)
EscapeString(s) ==
    IF s = <<>> THEN <<>> ELSE EscapeChar(Head(s)) \o EscapeString(Tail(s))

RECURSIVE IntToText(_)
IntToText(n) ==
    IF n < 10 THEN <<Digits[n + 1]>> ELSE IntToText(n \div 10) \o <<Digits[(n % 10) + 1]>>

RECURSIVE json_dumps(_)
RECURSIVE DumpItems(_, _)
DumpItems(items, isDict) ==
    IF items = <<>> THEN <<>>
    ELSE LET one == IF isDict
                    THEN <<QUOTE>> \o EscapeString(Head(items)[1]) \o <<QUOTE, ":", SPACE>>
                         \o json_dumps(Head(items)[2])
                    ELSE json_dumps(Head(items))
         IN  one \o (IF Len(items) > 1 THEN <<",", SPACE>> ELSE <<>>)
                 \o DumpItems(Tail(items), isDict)

json_dumps(v) ==
    CASE v.t = "null" -> <<"n", "u", "l", "l">>
      [] v.t = "num"  -> IntToText(v.n)
      [] v.t = "str"  -> <<QUOTE>> \o EscapeString(v.s) \o <<QUOTE>>
      [] v.t = "list" -> <<"[">> \o DumpItems(v.items, FALSE) \o <<"]">>
      [] v.t = "dict" -> <<"{">> \o DumpItems(v.items, TRUE) \o <<"}">>

(***************************************************************************)
(* json.loads: a recursive-descent reader.  Every reader returns           *)
(* [ok, v, rest]; a raw line terminator inside a string is rejected, as    *)
(* the strict decoder rejects control characters.                          *)
(***************************************************************************)
ParseFail == [ok |-> FALSE, v |-> None, rest |-> <<>>]
ParseOk(v, rest) == [ok |-> TRUE, v |-> v, rest |-> rest]

RECURSIVE SkipWs(_)
SkipWs(s) == IF s # <<>> /\ Head(s) = SPACE THEN SkipWs(Tail(s)) ELSE s

DigitValue(c) == IndexOf(Digits, c, 1) - 1
IsDigit(c) == IndexOf(Digits, c, 1) > 0

RECURSIVE ReadString(_, _)
ReadString(s, acc) ==
    IF s = <<>> THEN ParseFail
    ELSE IF Head(s) = QUOTE THEN ParseOk(acc, Tail(s))
    ELSE IF Head(s) = NL THEN ParseFail
    ELSE IF Head(s) = BSL
         THEN IF Len(s) < 2 THEN ParseFail
              ELSE IF s[2] = "n" THEN ReadString(DropPrefix(s, 2), Append(acc, NL))
              ELSE IF s[2] = QUOTE THEN ReadString(DropPrefix(s, 2), Append(acc, QUOTE))
              ELSE IF s[2] = BSL THEN ReadString(DropPrefix(s, 2), Append(acc, BSL))
              ELSE ParseFail
    ELSE ReadString(Tail(s), Append(acc, Head(s)))

RECURSIVE ReadNumber(_, _)
ReadNumber(s, acc) ==
    IF s # <<>> /\ IsDigit(Head(s))
    THEN ReadNumber(Tail(s), 10 * acc + DigitValue(Head(s)))
    ELSE ParseOk(JNum(acc), s)

RECURSIVE ReadValue(_)
RECURSIVE ReadElements(_, _)
RECURSIVE ReadMembers(_, _)

\* after "[" and any elements read so far
ReadElements(s, acc) ==
    LET r == ReadValue(s)
    IN  IF ~r.ok THEN ParseFail
        ELSE LET t == SkipWs(r.rest)
             IN  IF t = <<>> THEN ParseFail
                 ELSE IF Head(t) = "," THEN ReadElements(Tail(t), Append(acc, r.v))
                 ELSE IF Head(t) = "]" THEN ParseOk(JList(Append(acc, r.v)), Tail(t))
                 ELSE ParseFail

\* after "{" and any members read so far; a repeated key keeps its last value
ReadMembers(s, acc) ==
    LET t0 == SkipWs(s)
    IN  IF t0 = <<>> \/ Head(t0) # QUOTE THEN ParseFail
        ELSE LET k == ReadString(Tail(t0), <<>>)
             IN  IF ~k.ok THEN ParseFail
                 ELSE LET t1 == SkipWs(k.rest)
                      IN  IF t1 = <<>> \/ Head(t1) # ":" THEN ParseFail
                          ELSE LET r == ReadValue(Tail(t1))
                               IN  IF ~r.ok THEN ParseFail
                                   ELSE LET t2 == SkipWs(r.rest)
                                            hit == \E i \in 1..Len(acc) : acc[i][1] = k.v
                                            new == IF hit
                                                   THEN [i \in 1..Len(acc) |->
                                                           IF acc[i][1] = k.v
                                                           THEN <<k.v, r.v>> ELSE acc[i]]
                                                   ELSE Append(acc, <<k.v, r.v>>)
                                        IN  IF t2 = <<>> THEN ParseFail
                                            ELSE IF Head(t2) = "," THEN ReadMembers(Tail(t2), new)
                                            ELSE IF Head(t2) = "}" THEN ParseOk(JDict(new), Tail(t2))
                                            ELSE ParseFail

ReadValue(s0) ==
    LET s == SkipWs(s0)
    IN  IF s = <<>> THEN ParseFail
        ELSE IF StartsWith(s, <<"n", "u", "l", "l">>) THEN ParseOk(None, DropPrefix(s, 4))
        ELSE IF Head(s) = QUOTE
             THEN LET r == ReadString(Tail(s), <<>>)
                  IN  IF r.ok THEN ParseOk(JStr(r.v), r.rest) ELSE ParseFail
        ELSE IF IsDigit(Head(s)) THEN ReadNumber(s, 0)
        ELSE IF Head(s) = "["
             THEN LET t == SkipWs(Tail(s))
                  IN  IF t # <<>> /\ Head(t) = "]" THEN ParseOk(JList(<<>>), Tail(t))
                      ELSE ReadElements(Tail(s), <<>>)
        ELSE IF Head(s) = "{"
             THEN LET t == SkipWs(Tail(s))
                  IN  IF t # <<>> /\ Head(t) = "}" THEN ParseOk(JDict(<<>>), Tail(t))
                      ELSE ReadMembers(Tail(s), <<>>)
        ELSE ParseFail

json_loads(s) ==
    LET r == ReadValue(s)
    IN  IF r.ok /\ SkipWs(r.rest) = <<>> THEN ParseOk(r.v, <<>>) ELSE ParseFail

(***************************************************************************)
(* The lines of a text file, as iterating over the file yields them: a     *)
(* line ends at each line terminator, a last unterminated piece is a line  *)
(* of its own.                                                             *)
(***************************************************************************)
RECURSIVE Lines(_)
Lines(text) ==
    IF text = <<>> THEN <<>>
    ELSE LET i == IndexOf(text, NL, 1)
         IN  IF i = 0 THEN <<text>>
             ELSE <<SubSeq(text, 1, i - 1)>> \o Lines(DropPrefix(text, i))

(***************************************************************************)
(* Python subscription  obj[key]  on a decoded JSON value.  A dict takes   *)
(* a string key (KeyError when missing, and for any integer: JSON keys are *)
(* strings); a list and a str take an integer (IndexError when empty) and  *)
(* raise TypeError on a string key; None and numbers raise TypeError.      *)
(***************************************************************************)
Raises == [ok |-> FALSE, v |-> None]
Gives(v) == [ok |-> TRUE, v |-> v]

HasKey(v, k) == v.t = "dict" /\ \E i \in 1..Len(v.items) : v.items[i][1] = k
ValueAt(v, k) == v.items[CHOOSE i \in 1..Len(v.items) : v.items[i][1] = k][2]

GetItem(r, k) ==
    IF ~r.ok THEN Raises
    ELSE IF HasKey(r.v, k) THEN Gives(ValueAt(r.v, k)) ELSE Raises

GetFirst(r) ==
    IF ~r.ok THEN Raises
    ELSE IF r.v.t = "list" /\ r.v.items # <<>> THEN Gives(r.v.items[1])
    ELSE IF r.v.t = "str" /\ r.v.s # <<>> THEN Gives(JStr(<<r.v.s[1]>>))
    ELSE Raises

(***************************************************************************)
(* MapsAPICollector.parse_distance_and_duration: the pair                  *)
(* (distance_text, duration_text), or (None, None) when the try block      *)
(* raises.                                                                 *)
(***************************************************************************)
\* parse_distance_and_duration, were each field to fall back on its own
parse_each_field_alone(resp) ==
    LET element == GetFirst(GetItem(GetFirst(GetItem(Gives(resp), K_rows)), K_elements))
        distance_text == GetItem(GetItem(element, K_distance), K_text)
        duration_text == GetItem(GetItem(element, K_duration), K_text)
    IN  <<IF distance_text.ok THEN distance_text.v ELSE None,
          IF duration_text.ok THEN duration_text.v ELSE None>>

parse_distance_and_duration(resp) ==
    LET element == GetFirst(GetItem(GetFirst(GetItem(Gives(resp), K_rows)), K_elements))
        distance_text == GetItem(GetItem(element, K_distance), K_text)
        duration_text == GetItem(GetItem(element, K_duration), K_text)
    IN  IF distance_text.ok /\ duration_text.ok
        THEN <<distance_text.v, duration_text.v>>
        ELSE <<None, None>>

(***************************************************************************)
(* Configuration, environment and construction.                            *)
(***************************************************************************)
Unset == "<unset>"          \* os.getenv gives None
ApiKeyEnv == "GOOGLE_MAPS_API_KEY"
NoFile == "<absent>"        \* the .env file has no entry for the variable

EnvValues == {Unset, "", "KEY_ENV"}
DotenvValues == {NoFile, "", "KEY_FILE"}

FixedPlain == [mode |-> "driving"]
FixedColliding == [mode |-> "driving", key |-> "STALE", origins |-> "X", destinations |-> "Y"]

Config(google_maps, api_key_env, fixed) ==
    [google_maps |-> google_maps, api_key_env |-> api_key_env, fixed |-> fixed]

ValidConfigs == {Config(TRUE, ApiKeyEnv, f) : f \in {FixedPlain, FixedColliding}}
Configs == ValidConfigs \cup {Config(TRUE, "", FixedPlain), Config(FALSE, ApiKeyEnv, FixedPlain)}

\* load_dotenv(): override=False, so a variable already in os.environ (even
\* when empty) is kept and any other entry of the file is set.
load_dotenv(env, file) == IF env = Unset /\ file # NoFile THEN file ELSE env

\* Python truth value of a str-or-None
Falsy(x) == x = Unset \/ x = ""

NoCollector == [config |-> "none"]

\* __init__, were the key only tested against None
MapsAPICollectorNoneTest(config, env) ==
    IF ~config.google_maps
    THEN [ok |-> FALSE, self |-> NoCollector, error |-> "ValueError: missing apis.google_maps"]
    ELSE IF Falsy(config.api_key_env)
    THEN [ok |-> FALSE, self |-> NoCollector, error |-> "ValueError: no api_key_env"]
    ELSE IF env = Unset
    THEN [ok |-> FALSE, self |-> NoCollector, error |-> "ValueError: environment variable is not set"]
    ELSE [ok |-> TRUE,
          self |-> [config |-> config, fixed_params |-> config.fixed, api_key |-> env],
          error |-> "none"]

\* MapsAPICollector.__init__ after load_dotenv(), given the value os.getenv
\* finds: the object, or the error raised.
MapsAPICollector(config, env) ==
    IF ~config.google_maps
    THEN [ok |-> FALSE, self |-> NoCollector, error |-> "ValueError: missing apis.google_maps"]
    ELSE IF Falsy(config.api_key_env)
    THEN [ok |-> FALSE, self |-> NoCollector, error |-> "ValueError: no api_key_env"]
    ELSE IF Falsy(env)
    THEN [ok |-> FALSE, self |-> NoCollector, error |-> "ValueError: environment variable is not set"]
    ELSE [ok |-> TRUE,
          self |-> [config |-> config, fixed_params |-> config.fixed, api_key |-> env],
          error |-> "none"]

(***************************************************************************)
(* MapsAPICollector._build_params: the parameters, and the collector as    *)
(* the method leaves it (the fixed parameters are copied, not aliased).    *)
(***************************************************************************)
InjectedKeys == {"origins", "destinations", "key"}

\* _build_params, were a fixed parameter to win over an injected one
_build_params_fixed_wins(self, origin, destination) ==
    LET injected == [origins |-> origin, destinations |-> destination, key |-> self.api_key]
        params == [k \in DOMAIN self.fixed_params \cup InjectedKeys |->
                     IF k \in DOMAIN self.fixed_params THEN self.fixed_params[k]
                     ELSE injected[k]]
    IN  [params |-> params, self |-> self]

_build_params(self, origin, destination) ==
    LET injected == [origins |-> origin, destinations |-> destination, key |-> self.api_key]
        params == [k \in DOMAIN self.fixed_params \cup InjectedKeys |->
                     IF k \in InjectedKeys THEN injected[k] ELSE self.fixed_params[k]]
    IN  [params |-> params, self |-> self]

(***************************************************************************)
(* The network: what one requests.get may meet.  A transport failure, or   *)
(* a response with a status and a body; the body of a response is text.    *)
(***************************************************************************)
S_10km == <<"1", "0", SPACE, "k", "m">>
S_15mins == <<"1", "5", SPACE, "m", "i", "n", "s">>
S_tricky == <<"a", NL, QUOTE, BSL, "n">>

Missing == [t |-> "missing"]     \* the key is not in the element at all
WithText(v) == JDict(<< <<K_text, v>> >>)

Elem(distance, duration) ==
    JDict((IF distance = Missing THEN <<>> ELSE << <<K_distance, distance>> >>)
          \o (IF duration = Missing THEN <<>> ELSE << <<K_duration, duration>> >>))

WithRows(rows) == JDict(<< <<K_status, JStr(<<"O", "K">>)>>, <<K_rows, rows>> >>)
WithElements(elements) == WithRows(JList(<<JDict(<< <<K_elements, elements>> >>)>>))
Resp(element) == WithElements(JList(<<element>>))

R_ok == Resp(Elem(WithText(JStr(S_10km)), WithText(JStr(S_15mins))))
R_tricky == Resp(Elem(WithText(JStr(S_tricky)), WithText(JStr(S_15mins))))
R_denied == JDict(<< <<K_status, JStr(<<"N", "O">>)>> >>)
R_nulltext == Resp(Elem(WithText(None), WithText(JStr(S_15mins))))

ServerResponses == {R_tricky, R_denied}

FieldShapes ==
    {Missing, None, JStr(S_10km), JList(<<>>), JDict(<< <<<<"v">>, JNum(15)>> >>),
     WithText(None), WithText(JNum(12)), WithText(JStr(S_10km)), WithText(JStr(S_tricky))}

OddShapes ==
    {None, JNum(7), JStr(K_rows), JList(<<>>), JList(<<R_ok>>), JDict(<<>>), R_denied,
     WithRows(None), WithRows(JList(<<>>)), WithRows(JStr(<<"a", "b">>)),
     WithRows(JList(<<JList(<<>>)>>)), WithRows(JList(<<JDict(<<>>)>>)),
     WithRows(JDict(<< <<<<"0">>, JDict(<<>>)>> >>)),
     WithElements(None), WithElements(JList(<<>>)), WithElements(JStr(<<"x", "y">>)),
     WithElements(JList(<<None>>)), WithElements(JList(<<JStr(K_distance)>>)),
     WithElements(JList(<<JDict(<<>>), Elem(WithText(JStr(S_10km)), WithText(JStr(S_15mins)))>>))}

\* every response shape the parser is tried on
AllShapes == OddShapes \cup {Resp(Elem(d, t)) : d \in FieldShapes, t \in FieldShapes}

Transport == [kind |-> "transport", status |-> 0, body |-> <<>>]
Http(status, body) == [kind |-> "http", status |-> status, body |-> body]
NotJson == <<"<", "h", "t", "m", "l", ">">>

Replies(responses) == {Http(200, json_dumps(r)) : r \in responses}
NetOutcomes == {Transport, Http(404, <<>>), Http(200, NotJson)} \cup Replies(ServerResponses)

\* Response.raise_for_status: an HTTPError for a 4xx or 5xx status
raise_for_status(status) == status >= 400 /\ status < 600

Error(type, status, attempt) == [type |-> type, status |-> status, attempt |-> attempt]
NoError == Error("none", 0, 0)

(***************************************************************************)
(* MapsAPICollector.fetch_distance_matrix against the outcome `out` of the *)
(* network call numbered `attempt`: the decoded response or the error      *)
(* raised, with the parameters sent.                                       *)
(***************************************************************************)
fetch_distance_matrix(self, origin, destination, out, attempt) ==
    LET b == _build_params(self, origin, destination)
        decoded == json_loads(out.body)
        base == [ok |-> FALSE, v |-> None, error |-> NoError, params |-> b.params, self |-> b.self]
    IN  IF out.kind = "transport"
        THEN [base EXCEPT !.error = Error("Timeout", 0, attempt)]
        ELSE IF raise_for_status(out.status)
        THEN [base EXCEPT !.error = Error("HTTPError", out.status, attempt)]
        ELSE IF ~decoded.ok
        THEN [base EXCEPT !.error = Error("JSONDecodeError", out.status, attempt)]
        ELSE [base EXCEPT !.ok = TRUE, !.v = decoded.v]

(***************************************************************************)
(* The disk: get_raw_output_path and save_raw_response.                    *)
(***************************************************************************)
Disk(dir, exists, content) ==
    [raw_dir_exists |-> dir, file_exists |-> exists, file_content |-> content]

\* raw_dir_path.mkdir(parents=True, exist_ok=True)
get_raw_output_path(disk) == [disk EXCEPT !.raw_dir_exists = TRUE]

\* save_raw_response, were the file opened with "w"
save_raw_response_truncating(disk, response) ==
    LET d == get_raw_output_path(disk)
    IN  [d EXCEPT !.file_exists = TRUE,
                  !.file_content = json_dumps(response) \o <<NL>>]

\* open(output_path, "a") and one write of json.dumps(api_response) + "\n"
save_raw_response(disk, response) ==
    LET d == get_raw_output_path(disk)
    IN  [d EXCEPT !.file_exists = TRUE,
                  !.file_content = @ \o json_dumps(response) \o <<NL>>]

CurrentDisk == Disk(raw_dir_exists, file_exists, file_content)

(***************************************************************************)
(* run_for_one_pair and run_batch.                                         *)
(***************************************************************************)
Pairs == {<<"SF", "Oakland">>, <<"Oakland", "SF">>}

RECURSIVE SeqsUpTo(_, _)
SeqsUpTo(S, n) ==
    IF n = 0 THEN {<<>>}
    ELSE LET shorter == SeqsUpTo(S, n - 1)
         IN  shorter \cup {Append(q, x) : q \in shorter, x \in S}

\* after_parse, were the response saved whatever save_raw says
after_parse_always_saves(save_raw) == "save"

\* after_parse, were the response never saved
after_parse_never_saves(save_raw) == "collect"

\* line 161: if save_raw
after_parse(save_raw) == IF save_raw THEN "save" ELSE "collect"

\* lines 164-170
ResultRecord(origin, destination, texts, response) ==
    [origin |-> origin, destination |-> destination,
     distance_text |-> texts[1], duration_text |-> texts[2], raw |-> response]

\* Accumulate, were the record put in front
AccumulateInFront(list, result) == <<result>> \o list

\* line 183: results.append(result)
Accumulate(list, result) == Append(list, result)

Pending == [kind |-> "pending", value |-> <<>>, error |-> NoError]
Returned(value) == [kind |-> "returned", value |-> value, error |-> NoError]
Raised(error) == [kind |-> "raised", value |-> <<>>, error |-> error]

NoCall == [no |-> 0, kind |-> "none", pairs |-> <<>>, save_raw |-> FALSE,
           entry |-> Disk(FALSE, FALSE, <<>>)]

Event(step, response) ==
    [call |-> call.no, i |-> idx, step |-> step, save_raw |-> call.save_raw, raw |-> response]

Origin == call.pairs[idx][1]
Destination == call.pairs[idx][2]

Enter(kind, pairs, save_raw) ==
    /\ collector # NoCollector
    /\ pc = "idle"
    /\ call.no < MaxCalls
    /\ Len(net_log) + Len(pairs) <= MaxFetches
    /\ call' = [no |-> call.no + 1, kind |-> kind, pairs |-> pairs, save_raw |-> save_raw,
                entry |-> CurrentDisk]
    /\ idx' = 1
    /\ results' = <<>>
    /\ api_response' = None
    /\ parsed' = <<None, None>>
    /\ pc' = IF pairs = <<>> THEN "idle" ELSE "fetch"
    /\ outcome' = IF pairs = <<>> THEN Returned(<<>>) ELSE Pending
    /\ UNCHANGED << environ, dotenv, collector, construction, raw_dir_exists, file_exists,
                    file_content, net_log, events >>

CallOne == \E p \in Pairs, save_raw \in BOOLEAN : Enter("one", <<p>>, save_raw)

CallBatch == \E ps \in SeqsUpTo(Pairs, MaxPairs), save_raw \in BOOLEAN : Enter("batch", ps, save_raw)

LogEntry(out, r) ==
    [call |-> call.no, i |-> idx, origin |-> Origin, destination |-> Destination,
     save_raw |-> call.save_raw, params |-> r.params, out |-> out, ok |-> r.ok,
     v |-> r.v, error |-> r.error]

\* line 158, the fetch returns
FetchReturnsFrom(outs) ==
    /\ pc = "fetch"
    /\ \E out \in outs :
         LET r == fetch_distance_matrix(collector, Origin, Destination, out, Len(net_log) + 1)
         IN  /\ r.ok
             /\ api_response' = r.v
             /\ collector' = r.self
             /\ net_log' = Append(net_log, LogEntry(out, r))
             /\ events' = Append(events, Event("fetch", r.v))
    /\ pc' = "parse"
    /\ UNCHANGED << environ, dotenv, construction, raw_dir_exists, file_exists, file_content,
                    call, idx, parsed, results, outcome >>

\* line 158, the fetch raises: neither run_for_one_pair nor the loop of
\* run_batch (lines 181-183) handles it, so the call ends with that error
FetchRaisesFrom(outs) ==
    /\ pc = "fetch"
    /\ \E out \in outs :
         LET r == fetch_distance_matrix(collector, Origin, Destination, out, Len(net_log) + 1)
         IN  /\ ~r.ok
             /\ collector' = r.self
             /\ net_log' = Append(net_log, LogEntry(out, r))
             /\ events' = Append(events, Event("raise", None))
             /\ outcome' = Raised(r.error)
    /\ pc' = "idle"
    /\ UNCHANGED << environ, dotenv, construction, raw_dir_exists, file_exists, file_content,
                    call, idx, api_response, parsed, results >>

\* FetchRaises, were the loop of run_batch to catch the error and go on
FetchRaisesSkipsPair ==
    /\ pc = "fetch"
    /\ \E out \in NetOutcomes :
         LET r == fetch_distance_matrix(collector, Origin, Destination, out, Len(net_log) + 1)
             last == call.kind = "one" \/ idx = Len(call.pairs)
         IN  /\ ~r.ok
             /\ collector' = r.self
             /\ net_log' = Append(net_log, LogEntry(out, r))
             /\ events' = Append(events, Event("raise", None))
             /\ outcome' = IF call.kind = "one" THEN Raised(r.error)
                            ELSE IF last THEN Returned(results) ELSE outcome
             /\ pc' = IF last THEN "idle" ELSE "fetch"
             /\ idx' = IF last THEN idx ELSE idx + 1
    /\ UNCHANGED << environ, dotenv, construction, raw_dir_exists, file_exists, file_content,
                    call, api_response, parsed, results >>

FetchReturns == FetchReturnsFrom(NetOutcomes)
FetchRaises == FetchRaisesFrom(NetOutcomes)

\* line 159
Parse ==
    /\ pc = "parse"
    /\ parsed' = parse_distance_and_duration(api_response)
    /\ pc' = after_parse(call.save_raw)
    /\ events' = Append(events, Event("parse", api_response))
    /\ UNCHANGED << environ, dotenv, collector, construction, raw_dir_exists, file_exists,
                    file_content, call, idx, api_response, results, outcome, net_log >>

\* line 162
Save ==
    /\ pc = "save"
    /\ LET d == save_raw_response(CurrentDisk, api_response)
       IN  /\ raw_dir_exists' = d.raw_dir_exists
           /\ file_exists' = d.file_exists
           /\ file_content' = d.file_content
    /\ pc' = "collect"
    /\ events' = Append(events, Event("save", api_response))
    /\ UNCHANGED << environ, dotenv, collector, construction, call, idx, api_response,
                    parsed, results, outcome, net_log >>

\* lines 164-170, and for run_batch lines 183-184 and the next turn of the loop
Collect ==
    /\ pc = "collect"
    /\ LET record == ResultRecord(Origin, Destination, parsed, api_response)
       IN  /\ events' = Append(events, Event("collect", api_response))
           /\ IF call.kind = "one"
              THEN /\ outcome' = Returned(<<record>>)
                   /\ pc' = "idle"
                   /\ UNCHANGED << results, idx >>
              ELSE /\ results' = Accumulate(results, record)
                   /\ IF idx = Len(call.pairs)
                      THEN /\ outcome' = Returned(results')
                           /\ pc' = "idle"
                           /\ idx' = idx
                      ELSE /\ outcome' = outcome
                           /\ pc' = "fetch"
                           /\ idx' = idx + 1
    /\ UNCHANGED << environ, dotenv, collector, construction, raw_dir_exists, file_exists,
                    file_content, call, api_response, parsed, net_log >>

(***************************************************************************)
(* The pipeline: a collector built from a valid configuration with the     *)
(* key in the environment, on a fresh checkout (no raw directory yet).     *)
(***************************************************************************)
Built(config, env_before, env) ==
    [done |-> TRUE, environ |-> env_before, config |-> config,
     error |-> MapsAPICollector(config, env).error]
NotBuilt == [done |-> FALSE, environ |-> Unset, config |-> Config(FALSE, "", FixedPlain),
             error |-> "none"]

Quiet ==
    /\ raw_dir_exists = FALSE
    /\ file_exists = FALSE
    /\ file_content = <<>>
    /\ pc = "idle"
    /\ call = NoCall
    /\ idx = 1
    /\ api_response = None
    /\ parsed = <<None, None>>
    /\ results = <<>>
    /\ outcome = Pending
    /\ net_log = <<>>
    /\ events = <<>>

Fresh(configs) ==
    /\ environ = "KEY_ENV"
    /\ dotenv = NoFile
    /\ \E config \in configs :
         /\ collector = MapsAPICollector(config, environ).self
         /\ construction = Built(config, environ, environ)
    /\ Quiet

Init == Fresh({Config(TRUE, ApiKeyEnv, FixedPlain)})

Next == CallOne \/ CallBatch \/ FetchReturns \/ FetchRaises \/ Parse \/ Save \/ Collect

Spec == Init /\ [][Next]_vars

(***************************************************************************)
(* The request parameters: collectors of both configurations, against a    *)
(* server that refuses or is unreachable.                                  *)
(***************************************************************************)
InitParams == Fresh(ValidConfigs)

NextParams ==
    \/ CallOne
    \/ CallBatch
    \/ FetchReturnsFrom(Replies({R_denied}))
    \/ FetchRaisesFrom({Transport})
    \/ Parse
    \/ Save
    \/ Collect

SpecParams == InitParams /\ [][NextParams]_vars

(***************************************************************************)
(* Response shapes: the first run_for_one_pair of a fresh collector,       *)
(* against every shape of response.                                        *)
(***************************************************************************)
FirstCallOne == call.no = 0 /\ CallOne

NextShapes ==
    \/ FirstCallOne
    \/ FetchReturnsFrom(Replies(AllShapes))
    \/ FetchRaisesFrom({Transport})
    \/ Parse
    \/ Save
    \/ Collect

SpecShapes == Init /\ [][NextShapes]_vars

(***************************************************************************)
(* Construction: any environment and .env file, any configuration, up to   *)
(* the first network call.                                                 *)
(***************************************************************************)
InitConstruct ==
    /\ environ \in EnvValues
    /\ dotenv \in DotenvValues
    /\ collector = NoCollector
    /\ construction = NotBuilt
    /\ Quiet

\* MapsAPICollector(config): load_dotenv() first, then the rest of __init__
Construct ==
    /\ ~construction.done
    /\ \E config \in Configs :
         LET env == load_dotenv(environ, dotenv)
             r == MapsAPICollector(config, env)
         IN  /\ environ' = env
             /\ collector' = r.self
             /\ construction' = Built(config, environ, env)
    /\ UNCHANGED << dotenv, raw_dir_exists, file_exists, file_content, pc, call, idx,
                    api_response, parsed, results, outcome, net_log, events >>

FirstFetch == net_log = <<>> /\ (FetchReturns \/ FetchRaises)

NextConstruct == Construct \/ FirstCallOne \/ FirstFetch

SpecConstruct == InitConstruct /\ [][NextConstruct]_vars

(***************************************************************************)
(* The sink: save_raw_response called directly on a fresh output path.     *)
(***************************************************************************)
SinkResponses ==
    {R_ok, R_tricky, R_denied, R_nulltext, None, JNum(15), JStr(S_tricky), JList(<<>>),
     JDict(<<>>), JList(<<JStr(<<BSL, BSL, "n">>), JNum(0)>>),
     JDict(<< <<S_tricky, JStr(<<NL>>)>>, <<<<QUOTE>>, None>> >>)}

Saved == SelectSeq(events, LAMBDA e : e.step = "save")

SaveDirect ==
    /\ collector # NoCollector
    /\ pc = "idle"
    /\ Len(Saved) < MaxSaves
    /\ \E r \in SinkResponses :
         LET d == save_raw_response(CurrentDisk, r)
         IN  /\ raw_dir_exists' = d.raw_dir_exists
             /\ file_exists' = d.file_exists
             /\ file_content' = d.file_content
             /\ events' = Append(events, Event("save", r))
    /\ UNCHANGED << environ, dotenv, collector, construction, pc, call, idx, api_response,
                    parsed, results, outcome, net_log >>

InitSink ==
    /\ Fresh({Config(TRUE, ApiKeyEnv, FixedPlain)})

SpecSink == InitSink /\ [][SaveDirect]_vars

(***************************************************************************)
(* Reading the history.                                                    *)
(***************************************************************************)
NetOf(c) == SelectSeq(net_log, LAMBDA e : e.call = c)
EventsOf(c) == SelectSeq(events, LAMBDA e : e.call = c)
Count(seq, Test(_)) == Len(SelectSeq(seq, Test))

RECURSIVE SavedLines(_)
SavedLines(entries) ==
    IF entries = <<>> THEN <<>>
    ELSE json_dumps(Head(entries).v) \o <<NL>> \o SavedLines(Tail(entries))

\* the pair whose round trip is still under way, if any
UnderWay(e) == e.call = call.no /\ e.i = idx /\ pc \in {"parse", "save", "collect"}

(***************************************************************************)
(* C1.  In a run_batch whose k-th network call is the first to fail, no    *)
(* network call is issued for a later pair, and the call ends by raising   *)
(* exactly the error of that k-th network call.                            *)
(***************************************************************************)
C1_ShortCircuit ==
    /\ \A p \in 1..Len(net_log), q \in 1..Len(net_log) :
         (p < q /\ net_log[p].call = net_log[q].call) => net_log[p].ok
    /\ LET mine == NetOf(call.no)
       IN  (call.kind = "batch" /\ mine # <<>> /\ ~mine[Len(mine)].ok) =>
             /\ pc = "idle"
             /\ \A k \in 1..Len(mine) : mine[k].i = k
             /\ outcome = Raised(mine[Len(mine)].error)
             /\ outcome.error = net_log[Len(net_log)].error
             /\ outcome.error.attempt = Len(net_log)
             /\ outcome.error.type \in {"Timeout", "HTTPError", "JSONDecodeError"}

C1_Witness ==
    /\ call.kind = "batch"
    /\ outcome.kind = "raised"
    /\ Len(NetOf(call.no)) < Len(call.pairs)

(***************************************************************************)
(* C9.  run_batch works through the pairs one after the other in input     *)
(* order: a pair's network call comes only after the fetch, the parse, the *)
(* save (when asked for) and the record of the pair before it; a batch     *)
(* that returns gives one record per pair, the i-th carrying the i-th      *)
(* pair and the response fetched for it, repeated pairs fetched again.     *)
(***************************************************************************)
FollowsInOrder(prev, next) ==
    CASE prev.step = "fetch"   -> next.i = prev.i /\ next.step = "parse"
      [] prev.step = "parse"   -> next.i = prev.i
                                  /\ next.step = (IF prev.save_raw THEN "save" ELSE "collect")
      [] prev.step = "save"    -> next.i = prev.i /\ next.step = "collect"
      [] prev.step = "collect" -> next.i = prev.i + 1 /\ next.step \in {"fetch", "raise"}
      [] OTHER                 -> FALSE

C9_Sequential ==
    /\ \A c \in 1..call.no :
         LET mine == EventsOf(c)
         IN  \A p \in 1..Len(mine) :
               IF p = 1 THEN mine[p].i = 1 /\ mine[p].step \in {"fetch", "raise"}
               ELSE FollowsInOrder(mine[p - 1], mine[p])
    /\ (call.kind = "batch" /\ outcome.kind = "returned") =>
         LET mine == NetOf(call.no)
         IN  /\ Len(outcome.value) = Len(call.pairs)
             /\ Len(mine) = Len(call.pairs)
             /\ \A i \in 1..Len(call.pairs) :
                  /\ outcome.value[i].origin = call.pairs[i][1]
                  /\ outcome.value[i].destination = call.pairs[i][2]
                  /\ mine[i].i = i /\ mine[i].ok
                  /\ mine[i].origin = call.pairs[i][1]
                  /\ mine[i].destination = call.pairs[i][2]
                  /\ outcome.value[i].raw = mine[i].v

C9_Witness ==
    /\ call.kind = "batch"
    /\ outcome.kind = "returned"
    /\ Len(call.pairs) >= 2
    /\ call.pairs[1] = call.pairs[2]
    /\ outcome.value[1].raw # outcome.value[2].raw

(***************************************************************************)
(* C10.  A run_batch with save_raw that fails at its k-th pair gives the   *)
(* caller no record, and leaves in the output file exactly the k-1 lines   *)
(* of the pairs before the k-th, in order, after what the file held.       *)
(***************************************************************************)
C10_NoRollback ==
    (call.kind = "batch" /\ call.save_raw /\ outcome.kind = "raised") =>
        LET mine == NetOf(call.no)
            k == Len(mine)
        IN  /\ outcome.value = <<>>
            /\ file_content = call.entry.file_content \o SavedLines(SubSeq(mine, 1, k - 1))
            /\ Len(Lines(file_content)) = Len(Lines(call.entry.file_content)) + (k - 1)

C10_Witness ==
    /\ call.kind = "batch"
    /\ call.save_raw
    /\ outcome.kind = "raised"
    /\ Len(NetOf(call.no)) >= 2
    /\ file_exists

(***************************************************************************)
(* C3.  run_for_one_pair with save_raw false writes nothing: the output    *)
(* file keeps its content, is not created, and the raw-data directory is   *)
(* not created, whether the fetch returns or raises.                       *)
(***************************************************************************)
C3_NoWrites ==
    (call.kind = "one" /\ ~call.save_raw) => CurrentDisk = call.entry

C3_Witness ==
    /\ call.kind = "one"
    /\ ~call.save_raw
    /\ outcome.kind = "returned"
    /\ ~raw_dir_exists
    /\ ~file_exists

(***************************************************************************)
(* Where the parser looks: rows[0].elements[0].distance.text and           *)
(* rows[0].elements[0].duration.text, Missing when a step of the path is   *)
(* not there.                                                              *)
(***************************************************************************)
At(v, k) ==
    IF v.t = "dict" /\ \E i \in 1..Len(v.items) : v.items[i][1] = k
    THEN v.items[CHOOSE i \in 1..Len(v.items) : v.items[i][1] = k][2]
    ELSE Missing

First(v) == IF v.t = "list" /\ v.items # <<>> THEN v.items[1] ELSE Missing

FirstElement(resp) == First(At(First(At(resp, K_rows)), K_elements))
DistanceText(resp) == At(At(FirstElement(resp), K_distance), K_text)
DurationText(resp) == At(At(FirstElement(resp), K_duration), K_text)

PathExists(resp) == DistanceText(resp) # Missing /\ DurationText(resp) # Missing
BothStrings(resp) == DistanceText(resp).t = "str" /\ DurationText(resp).t = "str"

\* line 159 has run for the pair at hand
HasParsed == pc \in {"save", "collect"} \/ (pc = "idle" /\ outcome.kind = "returned")

(***************************************************************************)
(* C4.  parse_distance_and_duration gives both texts when both are present *)
(* strings, (None, None) when a step of the path is missing, and never a   *)
(* pair with exactly one None.                                             *)
(***************************************************************************)
C4_AllOrNothing ==
    HasParsed =>
        /\ BothStrings(api_response) =>
              parsed = <<DistanceText(api_response), DurationText(api_response)>>
        /\ ~PathExists(api_response) => parsed = <<None, None>>
        /\ (parsed[1] = None) <=> (parsed[2] = None)

(***************************************************************************)
(* C8.  A response of unexpected shape is no error: when the fetch returns,*)
(* run_for_one_pair returns a record whatever the shape, its raw being the *)
(* fetched response and both texts None when the parser cannot follow its  *)
(* path, and with save_raw the response is appended to the output file as  *)
(* any other is.                                                           *)
(***************************************************************************)
C8_ShapeIsNoError ==
    /\ (pc = "idle" /\ net_log # <<>> /\ net_log[Len(net_log)].ok) => outcome.kind = "returned"
    /\ (pc = "idle" /\ call.kind = "one" /\ outcome.kind = "returned") =>
         LET record == outcome.value[1]
             fetched == net_log[Len(net_log)].v
         IN  /\ record.raw = fetched
             /\ record.origin = call.pairs[1][1]
             /\ record.destination = call.pairs[1][2]
             /\ ~PathExists(fetched) =>
                  (record.distance_text = None /\ record.duration_text = None)
             /\ PathExists(fetched) =>
                  /\ record.distance_text = DistanceText(fetched)
                  /\ record.duration_text = DurationText(fetched)
             /\ call.save_raw =>
                  /\ file_exists
                  /\ file_content = call.entry.file_content \o json_dumps(fetched) \o <<NL>>
                  /\ Len(Lines(file_content)) = Len(Lines(call.entry.file_content)) + 1

C8_Witness ==
    /\ pc = "idle"
    /\ outcome.kind = "returned"
    /\ call.save_raw
    /\ ~PathExists(outcome.value[1].raw)
    /\ DistanceText(outcome.value[1].raw) # Missing
    /\ Len(Lines(file_content)) = 1

(***************************************************************************)
(* C2.  As claimed: every round trip that came back with an HTTP success   *)
(* status has, once its pair is done, exactly one result record and, with  *)
(* save_raw, exactly one line in the output file.                          *)
(***************************************************************************)
HttpSuccess(e) == e.out.kind = "http" /\ e.out.status >= 200 /\ e.out.status < 300
Records(e) == Count(events, LAMBDA x : x.call = e.call /\ x.i = e.i /\ x.step = "collect")
Appends(e) == Count(events, LAMBDA x : x.call = e.call /\ x.i = e.i /\ x.step = "save")

C2_HttpSuccessGivesRecord ==
    \A n \in 1..Len(net_log) :
        LET e == net_log[n]
        IN  (HttpSuccess(e) /\ ~UnderWay(e)) =>
              /\ Records(e) = 1
              /\ Appends(e) = (IF e.save_raw THEN 1 ELSE 0)

(***************************************************************************)
(* C2, amended.  Every fetch that returned (an HTTP status that is no      *)
(* error and a body that decodes as JSON) has, once its pair is done,      *)
(* exactly one result record and, with save_raw, exactly one line in the   *)
(* output file; a fetch that raised has neither.  The file is the lines    *)
(* appended, in the order of the appends: each append adds one line after  *)
(* the lines already there and changes none of them.                       *)
(***************************************************************************)
C2_FetchSuccessGivesRecord ==
    /\ \A n \in 1..Len(net_log) :
         LET e == net_log[n]
         IN  /\ (e.ok /\ ~UnderWay(e)) =>
                   /\ Records(e) = 1
                   /\ Appends(e) = (IF e.save_raw THEN 1 ELSE 0)
             /\ (e.ok /\ UnderWay(e)) =>
                   /\ Records(e) = 0
                   /\ Appends(e) = (IF pc = "collect" /\ e.save_raw THEN 1 ELSE 0)
             /\ ~e.ok => (Records(e) = 0 /\ Appends(e) = 0)
    /\ Len(Lines(file_content)) = Len(Saved)
    /\ \A i \in 1..Len(Saved) : Lines(file_content)[i] = json_dumps(Saved[i].raw)
    /\ file_content # <<>> => file_content[Len(file_content)] = NL
    /\ file_exists <=> Saved # <<>>

C2_Witness ==
    /\ pc = "idle"
    /\ Len(Saved) = 2
    /\ Saved[1].call # Saved[2].call
    /\ Saved[1].raw # Saved[2].raw

(***************************************************************************)
(* C5.  Whatever calls came before, the parameters sent for origin O and   *)
(* destination D are the configured fixed parameters with origins = O,     *)
(* destinations = D and key = the secret put over them, every other fixed  *)
(* key kept; nothing of an earlier call is in them, and the collector's    *)
(* fixed parameters stay as configured.                                    *)
(***************************************************************************)
C5_ParamsAsConfigured ==
    LET fixed == construction.config.fixed
    IN  /\ collector.fixed_params = fixed
        /\ \A n \in 1..Len(net_log) :
             LET e == net_log[n]
             IN  /\ DOMAIN e.params = DOMAIN fixed \cup {"origins", "destinations", "key"}
                 /\ e.params["origins"] = e.origin
                 /\ e.params["destinations"] = e.destination
                 /\ e.params["key"] = "KEY_ENV"
                 /\ \A k \in DOMAIN fixed \ {"origins", "destinations", "key"} :
                      e.params[k] = fixed[k]

C5_Witness ==
    /\ Len(net_log) >= 2
    /\ net_log[1].origin # net_log[2].origin
    /\ "key" \in DOMAIN construction.config.fixed
    /\ net_log[1].call # net_log[2].call

(***************************************************************************)
(* C6.  As claimed: with a valid configuration, a constructor call made    *)
(* while the variable is unset or empty in the environment fails, leaves   *)
(* no collector and so no network call.                                    *)
(***************************************************************************)
C6_FailsWhenUnsetAtEntry ==
    (construction.done /\ construction.config \in ValidConfigs
        /\ construction.environ \in {Unset, ""}) =>
        /\ construction.error # "none"
        /\ collector = NoCollector
        /\ net_log = <<>>

(***************************************************************************)
(* C6, amended.  With a valid configuration, a constructor call made while *)
(* the variable is empty in the environment, or unset there and given no   *)
(* non-empty value by the .env file, fails with the ValueError of the      *)
(* missing variable, leaves no collector and no call is ever made; every   *)
(* network call carries a non-empty key.                                   *)
(***************************************************************************)
C6_FailsWhenNoSecret ==
    /\ (construction.done /\ construction.config \in ValidConfigs
          /\ (construction.environ = ""
                \/ (construction.environ = Unset /\ dotenv \in {NoFile, ""}))) =>
          /\ construction.error = "ValueError: environment variable is not set"
          /\ collector = NoCollector
          /\ call = NoCall
          /\ pc = "idle"
          /\ net_log = <<>>
    /\ \A n \in 1..Len(net_log) : net_log[n].params["key"] \in {"KEY_ENV", "KEY_FILE"}
    /\ collector = NoCollector => net_log = <<>>

C6_Witness ==
    /\ construction.done
    /\ construction.config \in ValidConfigs
    /\ construction.environ = Unset
    /\ dotenv = ""
    /\ construction.error # "none"

(***************************************************************************)
(* C7.  After N appends to a fresh output path the file has exactly N      *)
(* lines, and the i-th line alone decodes to the i-th response appended,   *)
(* line terminators inside its strings included.                           *)
(***************************************************************************)
C7_RoundTrip ==
    /\ Len(Lines(file_content)) = Len(Saved)
    /\ \A i \in 1..Len(Saved) :
         LET decoded == json_loads(Lines(file_content)[i])
         IN  decoded.ok /\ decoded.v = Saved[i].raw

C7_Witness ==
    /\ Len(Saved) >= 2
    /\ Saved[1].raw = R_tricky
    /\ Saved[2].raw = JStr(S_tricky)

====
